---- MODULE Spec2Model ----
(***************************************************************************)
(* Upload task orchestrator of firestarter-gui                             *)
(* (src/src/contexts/UploadContext.tsx, UploadProvider).                   *)
(*                                                                         *)
(* The registry `tasks` is React state replaced as a whole by every        *)
(* operation; `refs` is the per-id runtime record (cancel flag and byte    *)
(* accumulator) kept in a ref and keyed by task id.                        *)
(*                                                                         *)
(* Atomicity.  Every operation is one step: the updater a handler passes   *)
(* to setTasks is applied to the registry as the handler runs, in the      *)
(* order the handlers run, together with the handler's writes to refs.     *)
(* startUpload is two steps, split at its await of invoke('upload_file').  *)
(* SpecDeferred drops this for the listener and for resetTasks: what they  *)
(* hand to setTasks waits in `queue` until React renders, while their      *)
(* direct writes to refs.current happen at once.                           *)
(*                                                                         *)
(* Environment.  Date.now() never goes back and may return the same value  *)
(* to successive calls.  The engine emits upload_progress events only for  *)
(* transfers that upload_file was invoked for.                             *)
(*                                                                         *)
(* Numbers.  Byte counts are integers.  Percentages (the `percent` field,  *)
(* a bare numeric payload, Task.progress) are kept in hundredths: 50 is    *)
(* the JavaScript number 0.5, 100 is 1, 3000 is 30 and 10000 is 100.  A    *)
(* payload arrives as JSON, so NaN and Infinity never occur and the        *)
(* Number.isFinite tests of the source are always true.  An optional       *)
(* numeric field is <<>> when absent and <<v>> when it is the number v.    *)
(*                                                                         *)
(* Estimator.  src/unnamed/part_011 is the same provider with a speed and  *)
(* ETA estimator added to the listener.  SpecEstimator models it: byte     *)
(* counts are in MiB there, rates in MiB per second and times in           *)
(* milliseconds; a rate or an ETA is an exact fraction <<n, d>> in lowest  *)
(* terms (<<>> when unset).  The other specifications model                *)
(* src/src/contexts/UploadContext.tsx, which has no estimator, and leave   *)
(* `perf` and `meter` as they start.                                       *)
(*                                                                         *)
(* Subscription.  SpecListener models the effect that attaches the         *)
(* upload_progress listener, its cleanup and the asynchronous listen()     *)
(* call.  The other specifications take the listener as attached and       *)
(* deliver every event to it once; they leave `effects` and `unlistenRef`  *)
(* as they start.                                                          *)
(***************************************************************************)
EXTENDS Integers, Sequences, FiniteSets, TLC

VARIABLES
    tasks,      \* useState<UploadTask[]>: the registry, in creation order
    refs,       \* refs.current: task id -> runtime record
    creds,      \* credentials carry both user_id and user_app_key
    now,        \* the value Date.now() returns
    pending,    \* id -> number of invoke('upload_file') calls not yet settled
    engine,     \* the ids handed to upload_file so far: the transfers the
                \* engine reports on
    ghost,      \* per task (same index as tasks): history used by the properties
    queue,      \* the updaters handed to setTasks that React has not run yet
    perf,       \* the value performance.now() returns, in milliseconds
    meter,      \* per task (same index as tasks): the throughput estimator of
                \* src/unnamed/part_011, i.e. lastTs, emaBps, ring and
                \* warmSamples of the runtime record and speedBps and etaSec
                \* of the task
    effects,    \* the runs of the effect that attaches the listener, oldest
                \* first: the provider instance it ran in, its `mounted`
                \* flag and the state of its listen() call
    unlistenRef \* per provider instance: unlistenRef.current, as the number
                \* of the effect run whose unlisten function it holds, 0
                \* for null

vars == <<tasks, refs, creds, now, pending, engine, ghost, queue, perf, meter,
          effects, unlistenRef>>

---------------------------------------------------------------------------
\* Bounds of the model
MaxTasks == 2       \* tasks held by the registry at once
WideTasks == 1      \* the same under SpecWide
MaxClock == 1       \* Date.now() ranges over 0..MaxClock
MaxBytes == 2       \* largest raw `uploaded` value of an event
MaxAcc == 2         \* largest accBytes an event may produce
MaxNotify == 2      \* completion notifications counted per task
MaxPending == 1     \* unsettled upload_file invocations per id
MaxQueue == 2       \* updaters waiting for the next render
MaxMounts == 3      \* runs of the listener effect

FilePaths == {"a"}
Totals == {1, 2}
Ids == FilePaths \X (0 .. MaxClock)
NoId == <<>>
Undefined == "undefined"

\* `${filePath}-${Date.now()}`
MakeId(filePath, t) == <<filePath, t>>

IsNumber(x) == x # <<>>
Val(x) == x[1]
Max(a, b) == IF a >= b THEN a ELSE b

---------------------------------------------------------------------------
\* Pure helpers of the source

\* no clamping at all
noClamp(p) == p

clampPercent(p) == IF p < 0 THEN 0 ELSE IF p > 10000 THEN 10000 ELSE p

\* every value taken as a percentage already
noScale(p) == p

\* p <= 1 ? p * 100 : p
scalePercent(p) == IF p <= 100 THEN p * 100 ELSE p

\* normalizePercent(p, uploaded, total); uploaded and total are plain numbers at
\* the only call site, p is optional.  The result is optional.
normalizePercent(p, uploaded, total) ==
    IF total > 0 THEN <<clampPercent((uploaded * 10000) \div total)>>
    ELSE IF IsNumber(p) THEN <<clampPercent(scalePercent(Val(p)))>>
    ELSE <<>>

\* the search run from the front: the oldest uploading task
FirstUploading(prev) ==
    LET S == {i \in 1 .. Len(prev) : prev[i].status = "uploading"}
    IN  IF S = {} THEN 0 ELSE CHOOSE i \in S : \A j \in S : i <= j

\* [...prev].reverse().findIndex(status === 'uploading'), as a 1-based position
\* of prev; 0 when the search fails
LastUploading(prev) ==
    LET S == {i \in 1 .. Len(prev) : prev[i].status = "uploading"}
    IN  IF S = {} THEN 0 ELSE CHOOSE i \in S : \A j \in S : j <= i

\* prev.findIndex(t => t.id === id), 1-based; 0 when the search fails
FindIndex(prev, id) ==
    LET S == {i \in 1 .. Len(prev) : prev[i].id = id}
    IN  IF S = {} THEN 0 ELSE CHOOSE i \in S : \A j \in S : i <= j

\* a runtime record born cancelled
CancelledRef == [cancelled |-> TRUE, accBytes |-> 0, lastSeenBytes |-> 0]

NewRef == [cancelled |-> FALSE, accBytes |-> 0, lastSeenBytes |-> 0]

NewTask(id) ==
    [id |-> id, status |-> "uploading", progress |-> 0, uploadedSize |-> 0,
     totalSize |-> 0, message |-> Undefined, error |-> Undefined]

SetRef(rf, id, r) == [x \in (DOMAIN rf) \cup {id} |-> IF x = id THEN r ELSE rf[x]]

---------------------------------------------------------------------------
\* Progress payloads the engine may emit

NumberPayload(p) == [kind |-> "number", value |-> p]

ObjectPayload(id, percent, uploaded, total, completed, status, message, error) ==
    [kind |-> "object", id |-> id, percent |-> percent, uploaded |-> uploaded,
     total |-> total, completed |-> completed, status |-> status,
     message |-> message, error |-> error]

Opt(S) == {<<>>} \cup {<<v>> : v \in S}
EventIds == Ids \cup {NoId}
Percents == {-100, 50, 10000, 15000}     \* -1, 0.5 (a fraction), 100 and 150
Errors == {"engine error", ""}

\* JavaScript truthiness of an optional string
Truthy(str) == str # Undefined /\ str # ""

NumberEvents == {NumberPayload(p) : p \in Percents}
ByteEvents ==
    {ObjectPayload(id, <<>>, u, t, FALSE, Undefined, Undefined, Undefined) :
        id \in EventIds, u \in Opt(-1 .. MaxBytes), t \in Opt(Totals)}
PercentEvents ==
    {ObjectPayload(id, <<p>>, <<>>, <<>>, FALSE, Undefined, Undefined, Undefined) :
        id \in EventIds, p \in Percents}
CompletedEvents ==
    {ObjectPayload(id, <<>>, <<>>, <<>>, TRUE, Undefined, Undefined, Undefined) :
        id \in EventIds}
    \cup {ObjectPayload(id, <<>>, <<>>, <<>>, FALSE, "completed", Undefined, Undefined) :
        id \in EventIds}
ErrorEvents ==
    {ObjectPayload(id, <<>>, <<>>, <<>>, c, Undefined, Undefined, err) :
        id \in EventIds, c \in BOOLEAN, err \in Errors}
\* a total that is not positive
NegativeTotalEvents ==
    {ObjectPayload(id, <<>>, <<1>>, <<-1>>, FALSE, Undefined, Undefined, Undefined) :
        id \in EventIds}
MessageEvents ==
    {ObjectPayload(id, <<>>, <<>>, <<>>, FALSE, Undefined, "part done", Undefined) :
        id \in EventIds}

\* every payload of the model
AllPayloads ==
    NumberEvents \cup ByteEvents \cup PercentEvents \cup CompletedEvents
        \cup ErrorEvents \cup MessageEvents \cup NegativeTotalEvents

\* the payloads of Spec: status, percent and total, no byte counts
CorePayloads ==
    {NumberPayload(50)}
    \cup {e \in ByteEvents : e.uploaded = <<>> /\ e.total # <<>> /\ e.id # NoId}
    \cup {e \in PercentEvents : e.percent = <<10000>> /\ e.id # NoId}
    \cup {e \in CompletedEvents : e.completed}
    \cup {e \in ErrorEvents :
            ~e.completed /\ e.id # NoId /\ e.error = "engine error"}

\* the payloads of SpecBytes: raw byte counts, with and without an id
BytePayloads ==
    {e \in ByteEvents : e.uploaded \in {<<1>>, <<MaxBytes>>} /\ e.total = <<>>}
    \cup {e \in CompletedEvents : e.completed /\ e.id = NoId}

---------------------------------------------------------------------------
\* The upload_progress listener: the updater passed to setTasks, as a function
\* of the registry prev, refs.current and the payload.  It yields the new
\* registry, the new refs.current, the position of the task it was applied to
\* (0 when it returned prev) and the id of the 'upload:completed' event it
\* dispatched (NoId when none).

Dropped(prev, rf) == [tasks |-> prev, refs |-> rf, pos |-> 0, raised |-> NoId]

IsCancelled(rf, id) == id \in DOMAIN rf /\ rf[id].cancelled

\* a bare number written to every uploading task
OnNumberAll(prev, rf, p) ==
    [tasks |-> [i \in 1 .. Len(prev) |->
                    IF prev[i].status = "uploading"
                    THEN [prev[i] EXCEPT !.progress = clampPercent(scalePercent(p))]
                    ELSE prev[i]],
     refs |-> rf, pos |-> LastUploading(prev), raised |-> NoId]

OnNumber(prev, rf, p) ==
    LET pos == LastUploading(prev)
    IN  IF pos = 0 THEN Dropped(prev, rf)
        ELSE IF IsCancelled(rf, prev[pos].id) THEN Dropped(prev, rf)
        ELSE [tasks |-> [prev EXCEPT ![pos].progress = clampPercent(scalePercent(p))],
              refs |-> rf, pos |-> pos, raised |-> NoId]

\* a comparison that also treats an unchanged raw value as a reset
AccumulateOnEqual(r, uploaded) ==
    IF uploaded <= r.lastSeenBytes
    THEN [r EXCEPT !.accBytes = r.accBytes + r.lastSeenBytes,
                   !.lastSeenBytes = uploaded]
    ELSE [r EXCEPT !.lastSeenBytes = uploaded]

\* the byte accumulator: a raw value below lastSeenBytes is a per-part reset
Accumulate(r, uploaded) ==
    IF uploaded < r.lastSeenBytes
    THEN [r EXCEPT !.accBytes = r.accBytes + r.lastSeenBytes,
                   !.lastSeenBytes = uploaded]
    ELSE [r EXCEPT !.lastSeenBytes = uploaded]

\* the raw counter stored as it arrives
CumUploadedRaw(cur, r) == r.lastSeenBytes

\* Math.max(cur.uploadedSize, r.accBytes + r.lastSeenBytes)
CumUploaded(cur, r) == Max(cur.uploadedSize, r.accBytes + r.lastSeenBytes)

TargetPos(prev, id) ==
    IF id # NoId THEN FindIndex(prev, id) ELSE LastUploading(prev)

\* a status rule in which completion wins over a reported error
NextStatusSuccessFirst(cur, error, isCompletedFlag, doneByBytes) ==
    IF isCompletedFlag \/ doneByBytes THEN "success"
    ELSE IF Truthy(error) THEN "error"
    ELSE cur.status

\* a status rule that takes no account of the byte counts
NextStatusFlagOnly(cur, error, isCompletedFlag, doneByBytes) ==
    IF Truthy(error) THEN "error"
    ELSE IF isCompletedFlag THEN "success"
    ELSE cur.status

\* error ? 'error' : (isCompletedFlag || doneByBytes) ? 'success' : cur.status
NextStatus(cur, error, isCompletedFlag, doneByBytes) ==
    IF Truthy(error) THEN "error"
    ELSE IF isCompletedFlag \/ doneByBytes THEN "success"
    ELSE cur.status

NextTotal(cur, total) ==
    IF IsNumber(total) /\ Val(total) > 0 THEN Val(total) ELSE cur.totalSize

OnObject(prev, rf, e) ==
    LET pos == TargetPos(prev, e.id)
    IN  IF pos = 0 THEN Dropped(prev, rf)
        ELSE IF IsCancelled(rf, prev[pos].id) THEN Dropped(prev, rf)
        ELSE
        LET cur == prev[pos]
            r0 == IF cur.id \in DOMAIN rf THEN rf[cur.id] ELSE NewRef
            totalBytes == NextTotal(cur, e.total)
            counted == IsNumber(e.uploaded) /\ Val(e.uploaded) >= 0
            r1 == IF counted THEN Accumulate(r0, Val(e.uploaded)) ELSE r0
            cumUploaded ==
                IF counted THEN CumUploaded(cur, r1) ELSE cur.uploadedSize
            viewPercent == normalizePercent(e.percent, cumUploaded, totalBytes)
            isCompletedFlag == e.completed \/ e.status = "completed"
            doneByBytes == totalBytes > 0 /\ cumUploaded >= totalBytes
            nextTask ==
                [cur EXCEPT
                    !.progress = IF IsNumber(viewPercent) THEN Val(viewPercent)
                                 ELSE cur.progress,
                    !.uploadedSize = cumUploaded,
                    !.totalSize = totalBytes,
                    !.message = IF e.message # Undefined THEN e.message
                                ELSE cur.message,
                    !.error = IF e.error # Undefined THEN e.error ELSE cur.error,
                    !.status = NextStatus(cur, e.error, isCompletedFlag, doneByBytes)]
        IN  [tasks |-> [prev EXCEPT ![pos] = nextTask],
             refs |-> SetRef(rf, cur.id, r1),
             pos |-> pos,
             raised |-> IF nextTask.status = "success" /\ cur.status # "success"
                        THEN nextTask.id ELSE NoId]

Listener(prev, rf, payload) ==
    IF payload.kind = "number" THEN OnNumber(prev, rf, payload.value)
    ELSE OnObject(prev, rf, payload)

\* the error text stored, the status left alone
MarkErrorTextOnly(prev, id, text) ==
    [i \in 1 .. Len(prev) |->
        IF prev[i].id = id THEN [prev[i] EXCEPT !.error = text] ELSE prev[i]]

\* prev.map(t => t.id === id ? { ...t, status, error } : t)
MarkError(prev, id, text) ==
    [i \in 1 .. Len(prev) |->
        IF prev[i].id = id
        THEN [prev[i] EXCEPT !.status = "error", !.error = text] ELSE prev[i]]

\* prev.map(t => t.id === id ? { ...t, status: 'cancelled', message } : t)
MarkCancelled(prev, id) ==
    [i \in 1 .. Len(prev) |->
        IF prev[i].id = id
        THEN [prev[i] EXCEPT !.status = "cancelled",
                             !.message = "Upload cancelled by user"]
        ELSE prev[i]]

---------------------------------------------------------------------------
\* History kept for the properties (no part of the program's state).
\* everSuccess: the task has had status success.  userCancelled: CancelUpload
\* was applied to the task while it was uploading.  raised: the number of
\* 'upload:completed' events dispatched for the task.  specAcc/specLast: the byte
\* accumulator rule applied to the raw `uploaded` values delivered to this task.

NewGhost ==
    [everSuccess |-> FALSE, userCancelled |-> FALSE, raised |-> 0,
     specAcc |-> 0, specLast |-> 0]

GhostAfter(g, res, payload) ==
    [i \in 1 .. Len(g) |->
        LET counted == /\ i = res.pos
                       /\ payload.kind = "object"
                       /\ IsNumber(payload.uploaded)
                       /\ Val(payload.uploaded) >= 0
            u == Val(payload.uploaded)
        IN  [everSuccess |-> g[i].everSuccess \/ res.tasks[i].status = "success",
             userCancelled |-> g[i].userCancelled,
             raised |-> IF i = res.pos /\ res.raised # NoId
                        THEN g[i].raised + 1 ELSE g[i].raised,
             specAcc |-> IF counted /\ u < g[i].specLast
                         THEN g[i].specAcc + g[i].specLast ELSE g[i].specAcc,
             specLast |-> IF counted THEN u ELSE g[i].specLast]]

GhostCancel(g, prev, id) ==
    [i \in 1 .. Len(g) |->
        IF prev[i].id = id /\ prev[i].status = "uploading"
        THEN [g[i] EXCEPT !.userCancelled = TRUE] ELSE g[i]]

---------------------------------------------------------------------------
Init ==
    /\ tasks = <<>>
    /\ refs = <<>>
    /\ creds \in BOOLEAN
    /\ now = 0
    /\ pending = [id \in Ids |-> 0]
    /\ engine = {}
    /\ ghost = <<>>
    /\ queue = <<>>
    /\ perf = 0
    /\ meter = <<>>
    /\ effects = <<>>
    /\ unlistenRef = [i \in 1 .. MaxMounts |-> 0]

\* Date.now() advances
Tick ==
    /\ now < MaxClock
    /\ now' = now + 1
    /\ UNCHANGED <<tasks, refs, creds, pending, engine, ghost, queue, perf, meter, effects, unlistenRef>>

\* startUpload up to its await: the task is appended and its runtime record
\* (re)created; without credentials the task is marked error and the engine is
\* not called, otherwise invoke('upload_file') is in flight.  The registry
\* holds at most `limit` tasks.
StartUpload(filePath, limit) ==
    LET id == MakeId(filePath, now)
        added == Append(tasks, NewTask(id))
    IN  /\ Len(tasks) < limit
        /\ creds => pending[id] < MaxPending
        /\ tasks' = IF creds THEN added
                    ELSE MarkError(added, id, "Not logged in or missing credentials")
        /\ refs' = SetRef(refs, id, NewRef)
        /\ pending' = IF creds THEN [pending EXCEPT ![id] = @ + 1] ELSE pending
        /\ engine' = IF creds THEN engine \cup {id} ELSE engine
        /\ ghost' = Append(ghost, NewGhost)
        /\ UNCHANGED <<creds, now, queue, perf, meter, effects, unlistenRef>>

\* what a caller of startUpload gets for the task with this id: the function
\* is declared `=> void` and its promise resolves to undefined on every path,
\* so no id
StartUploadResult(id) == NoId

\* a resolved upload_file taken as the end of the transfer
InvokeResolvedSucceeds(id) ==
    /\ pending[id] > 0
    /\ pending' = [pending EXCEPT ![id] = @ - 1]
    /\ tasks' = [i \in 1 .. Len(tasks) |->
                    IF tasks[i].id = id /\ tasks[i].status = "uploading"
                    THEN [tasks[i] EXCEPT !.status = "success"] ELSE tasks[i]]
    /\ UNCHANGED <<refs, creds, now, engine, ghost, queue, perf, meter, effects, unlistenRef>>

\* invoke('upload_file') resolves: startUpload returns, nothing is written
InvokeResolved(id) ==
    /\ pending[id] > 0
    /\ pending' = [pending EXCEPT ![id] = @ - 1]
    /\ UNCHANGED <<tasks, refs, creds, now, engine, ghost, queue, perf, meter, effects, unlistenRef>>

\* invoke('upload_file') rejects: the catch block of startUpload
InvokeRejected(id) ==
    /\ pending[id] > 0
    /\ pending' = [pending EXCEPT ![id] = @ - 1]
    /\ tasks' = MarkError(tasks, id, "Upload failed")
    /\ UNCHANGED <<refs, creds, now, engine, ghost, queue, perf, meter, effects, unlistenRef>>

CancelUpload(id) ==
    /\ refs' = IF id \in DOMAIN refs
               THEN [refs EXCEPT ![id].cancelled = TRUE] ELSE refs
    /\ tasks' = MarkCancelled(tasks, id)
    /\ ghost' = GhostCancel(ghost, tasks, id)
    /\ UNCHANGED <<creds, now, pending, engine, queue, perf, meter, effects, unlistenRef>>

ResetTasks ==
    /\ tasks' = <<>>
    /\ refs' = <<>>
    /\ ghost' = <<>>
    /\ UNCHANGED <<creds, now, pending, engine, queue, perf, meter, effects, unlistenRef>>

\* credentials.user_id changes (login, logout): the effect calls resetTasks
SwitchAccount ==
    /\ creds' = ~creds
    /\ tasks' = <<>>
    /\ refs' = <<>>
    /\ ghost' = <<>>
    /\ UNCHANGED <<now, pending, engine, queue, perf, meter, effects, unlistenRef>>

\* the engine emits events only about transfers it was asked for; an event
\* without id (an object or a bare number) names none of them
Emits(payload) ==
    IF payload.kind = "object" /\ payload.id # NoId
    THEN payload.id \in engine ELSE engine # {}

\* the transfer src may emit this payload: with its own id or without any
EmitsFrom(src, payload) ==
    /\ src \in engine
    /\ (payload.kind = "object" /\ payload.id # NoId) => payload.id = src

\* one upload_progress event is delivered to the listener
ProgressEvent(payload) ==
    LET res == Listener(tasks, refs, payload)
    IN  /\ Emits(payload)
        /\ \A id \in DOMAIN res.refs : res.refs[id].accBytes <= MaxAcc
        /\ res.pos # 0 /\ res.raised # NoId => ghost[res.pos].raised < MaxNotify
        /\ tasks' = res.tasks
        /\ refs' = res.refs
        /\ ghost' = GhostAfter(ghost, res, payload)
        /\ UNCHANGED <<creds, now, pending, engine, queue, perf, meter, effects, unlistenRef>>

Operations(limit) ==
    \/ Tick
    \/ \E f \in FilePaths : StartUpload(f, limit)
    \/ \E id \in Ids : InvokeResolved(id)
    \/ \E id \in Ids : InvokeRejected(id)
    \/ \E id \in Ids : CancelUpload(id)
    \/ ResetTasks
    \/ SwitchAccount

\* two tasks, events about status, percent and total
Next ==
    \/ Operations(MaxTasks)
    \/ \E payload \in CorePayloads : ProgressEvent(payload)

Spec == Init /\ [][Next]_vars

\* two tasks, events carrying raw byte counts
NextBytes ==
    \/ Operations(MaxTasks)
    \/ \E payload \in BytePayloads : ProgressEvent(payload)

SpecBytes == Init /\ [][NextBytes]_vars

\* one task, every payload of the model
NextWide ==
    \/ Operations(WideTasks)
    \/ \E payload \in AllPayloads : ProgressEvent(payload)

SpecWide == Init /\ [][NextWide]_vars

---------------------------------------------------------------------------
\* Updaters that wait for the next render.  React queues what setTasks is
\* given and applies the queue in order when it renders; an updater reads and
\* writes refs.current when it runs, not when it was queued.

EventUpdater(payload) == [kind |-> "event", payload |-> payload]
\* setTasks([])
EmptyUpdater == [kind |-> "set", payload |-> NoId]

RunUpdater(st, u) ==
    IF u.kind = "set"
    THEN [tasks |-> <<>>, refs |-> st.refs, ghost |-> <<>>]
    ELSE LET res == Listener(st.tasks, st.refs, u.payload)
         IN  [tasks |-> res.tasks, refs |-> res.refs,
              ghost |-> GhostAfter(st.ghost, res, u.payload)]

RECURSIVE RunQueue(_, _)
RunQueue(st, q) ==
    IF q = <<>> THEN st ELSE RunQueue(RunUpdater(st, Head(q)), Tail(q))

\* the payloads of SpecDeferred: byte counts and completion, with an id
DeferredPayloads ==
    {e \in ByteEvents :
        e.id # NoId /\ e.uploaded \in {<<1>>, <<MaxBytes>>} /\ e.total = <<>>}
    \cup {e \in CompletedEvents : e.completed /\ e.id # NoId}

\* an upload_progress event arrives: the listener hands its updater to setTasks
EnqueueProgress(payload) ==
    LET q == Append(queue, EventUpdater(payload))
        st == RunQueue([tasks |-> tasks, refs |-> refs, ghost |-> ghost], q)
    IN  /\ Emits(payload)
        /\ Len(queue) < MaxQueue
        /\ \A id \in DOMAIN st.refs : st.refs[id].accBytes <= MaxAcc
        /\ \A i \in 1 .. Len(st.ghost) : st.ghost[i].raised <= MaxNotify
        /\ queue' = q
        /\ UNCHANGED <<tasks, refs, creds, now, pending, engine, ghost, perf, meter, effects, unlistenRef>>

\* resetTasks: setTasks([]) is queued, refs.current = {} is done at once
EnqueueReset ==
    /\ Len(queue) < MaxQueue
    /\ queue' = Append(queue, EmptyUpdater)
    /\ refs' = <<>>
    /\ UNCHANGED <<tasks, creds, now, pending, engine, ghost, perf, meter, effects, unlistenRef>>

\* React renders UploadProvider: the queued updaters run in order
Render ==
    LET st == RunQueue([tasks |-> tasks, refs |-> refs, ghost |-> ghost], queue)
    IN  /\ queue # <<>>
        /\ tasks' = st.tasks
        /\ refs' = st.refs
        /\ ghost' = st.ghost
        /\ queue' = <<>>
        /\ UNCHANGED <<creds, now, pending, engine, perf, meter, effects, unlistenRef>>

\* one task; the operations run between renders, events and resets may be
\* queued
NextDeferred ==
    \/ queue = <<>> /\ Operations(WideTasks)
    \/ \E payload \in DeferredPayloads : EnqueueProgress(payload)
    \/ EnqueueReset
    \/ Render

SpecDeferred == Init /\ [][NextDeferred]_vars

---------------------------------------------------------------------------
\* The speed and ETA estimator of src/unnamed/part_011.  Byte counts are in
\* blocks of 8 KiB (8192 bytes), rates in blocks per second, times in
\* milliseconds.

WARM_MIN_SAMPLES == 3
WARM_MIN_BYTES == 128           \* 1 * 1024 * 1024 bytes
FREEZE_REMAIN == 256            \* 2 * 1024 * 1024 bytes
WINDOW_MS == 10000              \* WINDOW_SEC = 10
MIN_DT_MS == 80                 \* MIN_DT = 0.08
MIN_RATE == <<1, 8>>            \* 1024 bytes per second
MAX_RATE == <<1310720, 1>>      \* 10 * 1024 * 1024 * 1024 bytes per second
EMA_ALPHA == <<1, 10>>

MaxSamples == 3     \* samples the estimator takes per task
MaxPerf == 19000    \* performance.now() ranges over 0..MaxPerf
Elapsed == {1000, 9000}         \* milliseconds between two reads of the clock
MeterBytes == {128, 129, 50816, 50944}  \* 1 MiB, 1 MiB + 8 KiB, 397, 398 MiB
MeterTotals == {512, 51200}             \* 4 MiB, 400 MiB

RECURSIVE GCD(_, _)
GCD(a, b) == IF b = 0 THEN a ELSE GCD(b, a % b)

\* the fraction n / d (n >= 0, d > 0) in lowest terms
Rat(n, d) == LET g == GCD(n, d) IN <<n \div g, d \div g>>

RatAdd(x, y) ==
    LET l == (x[2] \div GCD(x[2], y[2])) * y[2]
    IN  Rat(x[1] * (l \div x[2]) + y[1] * (l \div y[2]), l)

RatMul(x, y) ==
    LET g1 == GCD(x[1], y[2])
        g2 == GCD(y[1], x[2])
    IN  <<(x[1] \div g1) * (y[1] \div g2), (x[2] \div g2) * (y[2] \div g1)>>

RatPositive(x) == x[1] > 0
\* est < MIN_RATE (a rate below 1 is tested first: the products stay small)
BelowMin(est) == est[1] < est[2] /\ est[1] * MIN_RATE[2] < est[2] * MIN_RATE[1]

\* est > MAX_RATE (a whole number)
AboveMax(est) ==
    LET q == est[1] \div est[2]
    IN  q > MAX_RATE[1] \/ (q = MAX_RATE[1] /\ est[1] % est[2] # 0)

\* the estimator part of a fresh runtime record, and the unset speedBps and
\* etaSec of a new task
NewMeter(ts) ==
    [lastTs |-> ts, emaBps |-> <<>>, ring |-> <<>>, warmSamples |-> 0,
     speedBps |-> <<>>, etaSec |-> <<>>]

\* while (r.ring.length && r.ring[0].t < cutoff) r.ring.shift()
RECURSIVE Shift(_, _)
Shift(ring, cutoff) ==
    IF ring # <<>> /\ Head(ring).t < cutoff THEN Shift(Tail(ring), cutoff)
    ELSE ring

\* the average over the window: null (<<>>) with fewer than two entries
AvgBps(ring) ==
    IF Len(ring) >= 2
    THEN LET first == ring[1]
             last == ring[Len(ring)]
             dT == Max(500, last.t - first.t)
             dB == Max(0, last.b - first.b)
         IN  Rat(dB * 1000, dT)
    ELSE <<>>

\* window average > EMA > null
Estimate(avgBps, emaBps) ==
    IF avgBps # <<>> /\ RatPositive(avgBps) THEN avgBps
    ELSE IF emaBps # <<>> /\ RatPositive(emaBps) THEN emaBps
    ELSE <<>>

\* Math.min(Math.max(estimator, 1024), 10 * 1024 * 1024 * 1024)
ClampRate(est) ==
    IF BelowMin(est) THEN MIN_RATE
    ELSE IF AboveMax(est) THEN MAX_RATE
    ELSE est

WarmedUp(warmSamples, cumUploaded) ==
    warmSamples >= WARM_MIN_SAMPLES /\ cumUploaded >= WARM_MIN_BYTES

\* the freeze test with the byte threshold alone
FreezeByRemainOnly(remain, cumUploaded, totalBytes) == remain < FREEZE_REMAIN

\* remain < FREEZE_REMAIN || pct >= 0.995
Freeze(remain, cumUploaded, totalBytes) ==
    remain < FREEZE_REMAIN \/ cumUploaded * 200 >= totalBytes * 199

\* etaSec as the listener computes it; <<>> when it stays undefined
EtaSec(warmedUp, est, cumUploaded, totalBytes) ==
    IF warmedUp /\ est # <<>> /\ totalBytes > 0
    THEN LET sp == ClampRate(est)
             remain == Max(0, totalBytes - cumUploaded)
         IN  IF Freeze(remain, cumUploaded, totalBytes) THEN <<1, 1>>
             ELSE RatMul(<<remain, 1>>, <<sp[2], sp[1]>>)
    ELSE <<>>

\* the estimator step of the listener for one object event applied to a task:
\* m is the task's estimator state, prevCum its uploadedSize before the event,
\* cumUploaded and totalBytes the values after it, nowTs = performance.now()
Estimator(m, prevCum, cumUploaded, totalBytes, nowTs) ==
    LET dt == Max(MIN_DT_MS, nowTs - m.lastTs)
        effDelta == Max(0, cumUploaded - prevCum)
        warmSamples == m.warmSamples + 1
        instBps == Rat(effDelta * 1000, dt)
        emaBps == IF m.emaBps = <<>> THEN instBps
                  ELSE RatAdd(RatMul(m.emaBps, <<EMA_ALPHA[2] - EMA_ALPHA[1], EMA_ALPHA[2]>>),
                              RatMul(instBps, EMA_ALPHA))
        ring == Shift(Append(m.ring, [t |-> nowTs, b |-> cumUploaded]),
                      nowTs - WINDOW_MS)
        est == Estimate(AvgBps(ring), emaBps)
        etaSec == EtaSec(WarmedUp(warmSamples, cumUploaded), est,
                         cumUploaded, totalBytes)
    IN  [lastTs |-> nowTs, emaBps |-> emaBps, ring |-> ring,
         warmSamples |-> warmSamples,
         speedBps |-> emaBps,
         etaSec |-> IF etaSec # <<>> THEN etaSec ELSE m.etaSec]

\* the payloads of SpecEstimator: byte counts and totals, with an id
MeterPayloads ==
    {ObjectPayload(id, <<>>, u, t, FALSE, Undefined, Undefined, Undefined) :
        id \in Ids, u \in Opt(MeterBytes), t \in Opt(MeterTotals)}

\* startUpload of part_011: as StartUpload, and the runtime record starts its
\* estimator at performance.now()
StartMetered(filePath) ==
    LET id == MakeId(filePath, now)
        added == Append(tasks, NewTask(id))
    IN  /\ Len(tasks) < WideTasks
        /\ creds => pending[id] < MaxPending
        /\ tasks' = IF creds THEN added
                    ELSE MarkError(added, id, "Not logged in or missing credentials")
        /\ refs' = SetRef(refs, id, NewRef)
        /\ meter' = Append(meter, NewMeter(perf))
        /\ pending' = IF creds THEN [pending EXCEPT ![id] = @ + 1] ELSE pending
        /\ engine' = IF creds THEN engine \cup {id} ELSE engine
        /\ ghost' = Append(ghost, NewGhost)
        /\ UNCHANGED <<creds, now, queue, perf, effects, unlistenRef>>

\* resetTasks of part_011: the registry and every runtime record are dropped
ResetMetered ==
    /\ tasks' = <<>>
    /\ refs' = <<>>
    /\ meter' = <<>>
    /\ ghost' = <<>>
    /\ UNCHANGED <<creds, now, pending, engine, queue, perf, effects, unlistenRef>>

\* one object event is delivered to the listener of part_011, d milliseconds
\* after the clock was last read, and is applied to a task
MeteredEvent(payload, d) ==
    LET res == Listener(tasks, refs, payload)
        nowTs == perf + d
    IN  /\ Emits(payload)
        /\ res.pos # 0
        /\ meter[res.pos].warmSamples < MaxSamples
        /\ nowTs <= MaxPerf
        /\ tasks' = res.tasks
        /\ refs' = res.refs
        /\ perf' = nowTs
        /\ meter' = [meter EXCEPT ![res.pos] =
                        Estimator(@, tasks[res.pos].uploadedSize,
                                  res.tasks[res.pos].uploadedSize,
                                  res.tasks[res.pos].totalSize, nowTs)]
        /\ ghost' = GhostAfter(ghost, res, payload)
        /\ UNCHANGED <<creds, now, pending, engine, queue, effects, unlistenRef>>

\* one task with its estimator
NextEstimator ==
    \/ \E f \in FilePaths : StartMetered(f)
    \/ \E id \in Ids : InvokeResolved(id)
    \/ ResetMetered
    \/ \E payload \in MeterPayloads, d \in Elapsed : MeteredEvent(payload, d)

SpecEstimator == Init /\ [][NextEstimator]_vars

---------------------------------------------------------------------------
\* The effect that attaches the upload_progress listener.  A run of the effect
\* is [inst, mounted, reg]: reg is "none" when the run returned before
\* listen(), "pending" while listen() is awaited, "active" once the listener
\* is registered and "removed" after its unlisten function was called.

Instances == 1 .. MaxMounts

\* the provider is mounted: the latest run of the effect has not been cleaned up
IsMounted == effects # <<>> /\ effects[Len(effects)].mounted

\* the listeners that apply an event: registered, and `if (!mounted) return`
\* does not stop them
Live == {k \in 1 .. Len(effects) : effects[k].reg = "active" /\ effects[k].mounted}

\* the effect runs.  fresh: React mounts a new instance of the provider (new
\* state and refs); otherwise it runs the effect of the same instance again
\* (state and refs kept).  The async body runs up to its await.
Mount(fresh) ==
    LET last == IF effects = <<>> THEN 0 ELSE effects[Len(effects)].inst
        inst == IF fresh \/ effects = <<>> THEN last + 1 ELSE last
    IN  /\ ~IsMounted
        /\ Len(effects) < MaxMounts
        /\ effects = <<>> => fresh
        /\ effects' = Append(effects,
                [inst |-> inst, mounted |-> TRUE,
                 reg |-> IF unlistenRef[inst] # 0 THEN "none" ELSE "pending"])
        /\ tasks' = IF fresh THEN <<>> ELSE tasks
        /\ refs' = IF fresh THEN <<>> ELSE refs
        /\ ghost' = IF fresh THEN <<>> ELSE ghost
        /\ UNCHANGED <<creds, now, pending, engine, queue, perf, meter, unlistenRef>>

\* the cleanup of the effect: mounted = false, and the unlisten function held
\* by unlistenRef.current, if any, is called and dropped
Unmount ==
    LET k == Len(effects)
        inst == effects[k].inst
        u == unlistenRef[inst]
    IN  /\ IsMounted
        /\ effects' = [j \in 1 .. k |->
                        [effects[j] EXCEPT
                            !.mounted = IF j = k THEN FALSE ELSE @,
                            !.reg = IF j = u /\ @ = "active" THEN "removed" ELSE @]]
        /\ unlistenRef' = [unlistenRef EXCEPT ![inst] = 0]
        /\ UNCHANGED <<tasks, refs, creds, now, pending, engine, ghost, queue,
                       perf, meter>>

\* listen() of run k resolves: the listener is registered and
\* unlistenRef.current = <its unlisten function> is executed
Registered(k) ==
    /\ k \in 1 .. Len(effects)
    /\ effects[k].reg = "pending"
    /\ effects' = [effects EXCEPT ![k].reg = "active"]
    /\ unlistenRef' = [unlistenRef EXCEPT ![effects[k].inst] = k]
    /\ UNCHANGED <<tasks, refs, creds, now, pending, engine, ghost, queue,
                   perf, meter>>

\* the payloads of SpecListener: byte counts with an id
ListenerPayloads == {e \in BytePayloads : e.id # NoId}

\* the engine emits one upload_progress event: every registered listener is
\* called, and each of them that is live hands its updater to setTasks
EmitEvent(payload) ==
    LET n == Cardinality(Live)
        st == RunQueue([tasks |-> tasks, refs |-> refs, ghost |-> ghost],
                       [i \in 1 .. n |-> EventUpdater(payload)])
    IN  /\ Emits(payload)
        /\ n > 0
        /\ \A id \in DOMAIN st.refs : st.refs[id].accBytes <= MaxAcc
        /\ \A i \in 1 .. Len(st.ghost) : st.ghost[i].raised <= MaxNotify
        /\ tasks' = st.tasks
        /\ refs' = st.refs
        /\ ghost' = st.ghost
        /\ UNCHANGED <<creds, now, pending, engine, queue, perf, meter,
                       effects, unlistenRef>>

\* one task; the provider is mounted, unmounted and mounted again while
\* listen() calls resolve
NextListener ==
    \/ \E fresh \in BOOLEAN : Mount(fresh)
    \/ Unmount
    \/ \E k \in 1 .. MaxMounts : Registered(k)
    \/ \E f \in FilePaths : IsMounted /\ StartUpload(f, WideTasks)
    \/ \E id \in Ids : InvokeResolved(id)
    \/ \E payload \in ListenerPayloads : EmitEvent(payload)

SpecListener == Init /\ [][NextListener]_vars

TypeOK ==
    /\ Len(tasks) <= MaxTasks
    /\ Len(ghost) = Len(tasks)
    /\ \A i \in 1 .. Len(tasks) :
        /\ tasks[i].id \in Ids
        /\ tasks[i].status \in {"uploading", "success", "error", "cancelled"}
        /\ tasks[i].uploadedSize \in 0 .. (MaxAcc + MaxBytes)
        /\ tasks[i].totalSize \in {0} \cup Totals
    /\ DOMAIN refs \subseteq Ids
    /\ Len(queue) <= MaxQueue

---------------------------------------------------------------------------
\* Properties

Terminal == {"success", "error", "cancelled"}

\* the tasks that exist before and after a step (a task keeps its position)
Kept == {i \in 1 .. Len(tasks) : i <= Len(tasks')}

\* the step delivers payload e
Delivers(e) == ProgressEvent(e)

\* C1: terminal states are absorbing: a task whose status is success, error or
\* cancelled keeps that status in every step in which it stays in the registry
\* (progress events of any shape, CancelUpload, the settling of upload_file).
C1_TerminalAbsorbing ==
    [][\A i \in Kept :
          tasks[i].status \in Terminal => tasks'[i].status = tasks[i].status]_vars

\* C2: a progress event whose id names a task that is already success, error or
\* cancelled leaves the whole registry unchanged and raises no notification.
C2_StaleEventDropped ==
    [][\A e \in AllPayloads :
          (/\ e.kind = "object"
           /\ e.id # NoId
           /\ FindIndex(tasks, e.id) # 0
           /\ tasks[FindIndex(tasks, e.id)].status \in Terminal
           /\ Delivers(e))
          => /\ tasks' = tasks
             /\ \A i \in Kept : ghost'[i].raised = ghost[i].raised]_vars

\* C3: CancelUpload on an uploading task makes it cancelled, and every progress
\* event delivered afterwards (with its id, without id, a bare number) leaves
\* its status cancelled and its uploadedSize and progress unchanged.
C3_CancelSuppressesEvents ==
    [][/\ \A id \in Ids : CancelUpload(id) =>
            \A i \in Kept :
                tasks[i].id = id /\ tasks[i].status = "uploading"
                    => tasks'[i].status = "cancelled"
       /\ \A e \in AllPayloads : Delivers(e) =>
            \A i \in Kept :
                ghost[i].userCancelled /\ tasks[i].status = "cancelled"
                    => /\ tasks'[i].status = "cancelled"
                       /\ tasks'[i].uploadedSize = tasks[i].uploadedSize
                       /\ tasks'[i].progress = tasks[i].progress]_vars

\* C4: the number of completion notifications raised for a task is 0 while the
\* task has never been success and exactly 1 from its first success onwards.
C4_NotifiedExactlyOnce ==
    \A i \in 1 .. Len(tasks) :
        ghost[i].raised = IF ghost[i].everSuccess THEN 1 ELSE 0

\* the fields C5 compares
View(t) == <<t.status, t.progress, t.uploadedSize, t.totalSize>>

\* C5: delivering the same payload a second time to the same task yields the
\* status, progress, uploadedSize and totalSize of the first delivery and
\* raises no notification; a payload that completes the task raises exactly one
\* notification over both deliveries.
C5_DuplicateIdempotent ==
    \A e \in AllPayloads :
        LET once == Listener(tasks, refs, e)
            twice == Listener(once.tasks, once.refs, e)
        IN  (once.pos # 0 /\ twice.pos \in {0, once.pos}) =>
                /\ View(twice.tasks[once.pos]) = View(once.tasks[once.pos])
                /\ twice.raised = NoId
                /\ (/\ tasks[once.pos].status # "success"
                    /\ once.tasks[once.pos].status = "success")
                   => once.raised = tasks[once.pos].id

\* a completed event reached a task that carried bytes over a reset, raised its
\* one notification, and its redelivery is attributed to the same task
C5_Witness ==
    \E i \in 1 .. Len(tasks) :
        /\ tasks[i].status = "success"
        /\ ghost[i].raised = 1
        /\ tasks[i].id \in DOMAIN refs
        /\ refs[tasks[i].id].accBytes > 0
        /\ \E e \in CompletedEvents :
              /\ e.id = tasks[i].id
              /\ Listener(tasks, refs, e).pos = i

\* C6: the stored uploadedSize of an uploading task never decreases from one
\* snapshot to the next, whatever raw `uploaded` values the events carry.
C6_BytesMonotonic ==
    [][\A i \in Kept :
          tasks[i].status = "uploading"
              => tasks'[i].uploadedSize >= tasks[i].uploadedSize]_vars

\* an uploading task whose raw counter was reset to a smaller value
C6_Witness ==
    \E i \in 1 .. Len(tasks) :
        /\ tasks[i].status = "uploading"
        /\ tasks[i].id \in DOMAIN refs
        /\ refs[tasks[i].id].accBytes > 0
        /\ refs[tasks[i].id].lastSeenBytes < tasks[i].uploadedSize

\* C7: the progress of an uploading task never decreases from one snapshot to
\* the next, for structured events and bare numeric events.
C7_ProgressMonotonic ==
    [][\A e \in AllPayloads : Delivers(e) =>
          \A i \in Kept :
              tasks[i].status = "uploading"
                  => tasks'[i].progress >= tasks[i].progress]_vars

\* C8: a task's uploadedSize is accumulatedBytes + lastSeenBytes of the raw
\* `uploaded` values delivered to it: the latest raw value plus the sum of the
\* raw values that immediately preceded each drop.
C8_ResetAccumulation ==
    \A i \in 1 .. Len(tasks) :
        tasks[i].uploadedSize = ghost[i].specAcc + ghost[i].specLast

\* C9: once a task's totalSize is greater than 0 no event makes it smaller.
C9_TotalNeverShrinks ==
    [][\A i \in Kept :
          tasks[i].totalSize > 0 => tasks'[i].totalSize >= tasks[i].totalSize]_vars

\* C10: a task whose error field is set has status error.
C10_ErrorImpliesError ==
    \A i \in 1 .. Len(tasks) :
        tasks[i].error # Undefined => tasks[i].status = "error"

\* the status an uploading task must have after an event, t being the task as
\* the event left it: error when the event reported one (failed), else success
\* when the event flagged completion or the bytes are all there, else uploading
StatusRule(t, failed, flagged) ==
    IF failed THEN "error"
    ELSE IF flagged \/ (t.totalSize > 0 /\ t.uploadedSize >= t.totalSize)
         THEN "success"
    ELSE "uploading"

\* the structured payloads the engine can emit in this state that the listener
\* applies to an uploading task
OnUploading(e) ==
    /\ e.kind = "object"
    /\ Emits(e)
    /\ Listener(tasks, refs, e).pos # 0
    /\ tasks[Listener(tasks, refs, e).pos].status = "uploading"

\* C11 as stated: a structured event applied to an uploading task makes it
\* error if the event has `error` set, else success if and only if the event
\* has completed = true or the resulting uploadedSize >= totalSize > 0, else
\* leaves it uploading.
C11_StatusOnEvent_Original ==
    \A e \in AllPayloads : OnUploading(e) =>
        LET res == Listener(tasks, refs, e)
        IN  res.tasks[res.pos].status
                = StatusRule(res.tasks[res.pos], e.error # Undefined, e.completed)

\* C11: a structured event applied to an uploading task makes it error if the
\* event has a non-empty `error` (also when it says completed), else success
\* if and only if the event has completed = true or status = 'completed' or
\* the resulting uploadedSize >= totalSize > 0, else leaves it uploading.
C11_StatusOnEvent ==
    \A e \in AllPayloads : OnUploading(e) =>
        LET res == Listener(tasks, refs, e)
        IN  res.tasks[res.pos].status
                = StatusRule(res.tasks[res.pos], Truthy(e.error),
                             e.completed \/ e.status = "completed")

\* an uploading task that already holds part of its bytes is about to receive
\* an event that reports an error and says completed, and becomes error
C11_Witness ==
    \E i \in 1 .. Len(tasks) :
        /\ tasks[i].status = "uploading"
        /\ tasks[i].uploadedSize > 0
        /\ tasks[i].totalSize > tasks[i].uploadedSize
        /\ \E e \in ErrorEvents :
              /\ e.completed
              /\ e.error = "engine error"
              /\ OnUploading(e)
              /\ Listener(tasks, refs, e).pos = i
              /\ Listener(tasks, refs, e).tasks[i].status = "error"

\* position i holds the most recently created uploading task
NewestUploading(i) ==
    /\ i \in 1 .. Len(tasks)
    /\ tasks[i].status = "uploading"
    /\ \A j \in 1 .. Len(tasks) : j > i => tasks[j].status # "uploading"

\* the listener returned the registry and the runtime records as they were
Discarded(res) ==
    res.pos = 0 /\ res.tasks = tasks /\ res.refs = refs /\ res.raised = NoId

\* C12: an event with an id is applied only to a task with exactly that id and
\* is discarded if there is none; an event without id (an object or a bare
\* number) is applied to the most recently created uploading task and is
\* discarded if no task is uploading; it never modifies a task that is not
\* uploading.
C12_Correlation ==
    \A e \in AllPayloads :
        LET res == Listener(tasks, refs, e)
            hasId == e.kind = "object" /\ e.id # NoId
        IN  /\ Len(res.tasks) = Len(tasks)
            /\ hasId =>
                /\ \A i \in 1 .. Len(tasks) :
                      tasks[i].id # e.id => res.tasks[i] = tasks[i]
                /\ res.pos # 0 => tasks[res.pos].id = e.id
                /\ (\A i \in 1 .. Len(tasks) : tasks[i].id # e.id)
                      => Discarded(res)
            /\ ~hasId =>
                /\ \A i \in 1 .. Len(tasks) :
                      NewestUploading(i) =>
                          /\ res.pos = i
                          /\ \A j \in 1 .. Len(tasks) :
                                j # i => res.tasks[j] = tasks[j]
                /\ \A i \in 1 .. Len(tasks) :
                      tasks[i].status # "uploading" => res.tasks[i] = tasks[i]
                /\ (\A i \in 1 .. Len(tasks) : tasks[i].status # "uploading")
                      => Discarded(res)

\* two uploading tasks with different ids, the newer one already holding
\* bytes, and an event without id about to add bytes to the newer one only
C12_Witness ==
    /\ Len(tasks) = 2
    /\ tasks[1].status = "uploading"
    /\ tasks[2].status = "uploading"
    /\ tasks[1].id # tasks[2].id
    /\ tasks[2].uploadedSize > 0
    /\ \E e \in ByteEvents :
          /\ e.id = NoId
          /\ Emits(e)
          /\ Listener(tasks, refs, e).pos = 2
          /\ Listener(tasks, refs, e).tasks[2].uploadedSize
                > tasks[2].uploadedSize
          /\ Listener(tasks, refs, e).tasks[1] = tasks[1]

\* C13: all tasks in the registry have pairwise different ids, also after two
\* StartUpload calls for the same file path with no clock advance in between.
C13_IdsUnique ==
    \A i, j \in 1 .. Len(tasks) : i # j => tasks[i].id # tasks[j].id

\* C14: the progress of every task is within [0, 100] in every reachable state,
\* whatever percent, uploaded and total the events carry (negative, above 100,
\* a bare number).
C14_ProgressInRange ==
    \A i \in 1 .. Len(tasks) : tasks[i].progress \in 0 .. 10000

\* a task at 50 percent by a reported fraction is about to receive a percent
\* of 150 (or a bare 150) and is left at 100; a percent of -1 leaves it at 0
C14_Witness ==
    \E i \in 1 .. Len(tasks) :
        /\ tasks[i].status = "uploading"
        /\ tasks[i].totalSize = 0
        /\ tasks[i].progress = 5000
        /\ \E e \in PercentEvents \cup NumberEvents :
              /\ (IF e.kind = "number" THEN e.value ELSE Val(e.percent)) = 15000
              /\ ENABLED ProgressEvent(e)
              /\ Listener(tasks, refs, e).tasks[i].progress = 10000
        /\ \E e \in PercentEvents \cup NumberEvents :
              /\ (IF e.kind = "number" THEN e.value ELSE Val(e.percent)) = -100
              /\ ENABLED ProgressEvent(e)
              /\ Listener(tasks, refs, e).tasks[i].progress = 0

\* the last task of the registry after the step is a new one with this id and
\* status, and its runtime record is new
Appended(id, status) ==
    /\ Len(tasks') = Len(tasks) + 1
    /\ tasks'[Len(tasks')].id = id
    /\ tasks'[Len(tasks')].status = status
    /\ tasks'[Len(tasks')].progress = 0
    /\ tasks'[Len(tasks')].uploadedSize = 0
    /\ tasks'[Len(tasks')].totalSize = 0
    /\ id \in DOMAIN refs'
    /\ ~refs'[id].cancelled
    /\ refs'[id].accBytes = 0
    /\ refs'[id].lastSeenBytes = 0

C16_StartWithoutCredentials ==
    [][\A f \in FilePaths : (~creds /\ StartUpload(f, MaxTasks)) =>
          /\ Len(tasks') = Len(tasks) + 1
          /\ tasks'[Len(tasks')].id = MakeId(f, now)
          /\ tasks'[Len(tasks')].status = "error"
          /\ Truthy(tasks'[Len(tasks')].error)
          /\ pending' = pending
          /\ engine' = engine]_vars

\* a task started without credentials: it is in error with the message of
\* startUpload and the engine never heard of its id
C16_Witness ==
    /\ ~creds
    /\ Len(tasks) > 0
    /\ tasks[Len(tasks)].status = "error"
    /\ tasks[Len(tasks)].error = "Not logged in or missing credentials"
    /\ tasks[Len(tasks)].id \notin engine
    /\ pending[tasks[Len(tasks)].id] = 0

\* C17: CancelUpload(id) for a task that is already cancelled, success or
\* error, or for an id that is not in the registry, leaves every task and
\* every runtime record unchanged.
C17_CancelOnlyUploading ==
    [][\A id \in Ids :
          (/\ CancelUpload(id)
           /\ \A i \in 1 .. Len(tasks) :
                 tasks[i].id = id => tasks[i].status \in Terminal)
          => tasks' = tasks /\ refs' = refs]_vars

\* C19: a structured event that carries a percent but neither uploaded nor
\* total sets the progress of the uploading task it is applied to to the
\* reported percent (times 100 when it is <= 1, clamped to [0, 100]), whatever
\* uploadedSize and totalSize the task stores.
C19_PercentFallback ==
    \A e \in PercentEvents : OnUploading(e) =>
        LET res == Listener(tasks, refs, e)
        IN  res.tasks[res.pos].progress
                = clampPercent(scalePercent(Val(e.percent)))

\* C20: a structured event that carries none of percent, uploaded and total
\* leaves the progress of the uploading task it is applied to as it was, also
\* when a bare numeric event set that progress earlier.
C20_ProgressKept ==
    \A e \in MessageEvents \cup CompletedEvents \cup ErrorEvents :
        OnUploading(e) =>
            LET res == Listener(tasks, refs, e)
            IN  res.tasks[res.pos].progress = tasks[res.pos].progress

\* the ids of the tasks in the registry
TaskIds == {tasks[i].id : i \in 1 .. Len(tasks)}

\* C18: the ids that have a runtime record are the ids of the tasks in the
\* registry, in every state in which no updater is waiting to run; after a
\* reset both are empty.
C18_RuntimeMatchesRegistry ==
    queue = <<>> => DOMAIN refs = TaskIds

\* the percentage a reported value p stands for: a fraction when p <= 1,
\* kept within [0, 100]
PercentOf(p) ==
    IF p < 0 THEN 0
    ELSE IF p <= 100 THEN p * 100
    ELSE IF p > 10000 THEN 10000
    ELSE p

\* C21: a bare number p delivered while a task is uploading sets the progress
\* of the most recently created uploading task to clamp(p <= 1 ? p*100 : p)
\* (0.5 gives 50) and leaves its status, uploadedSize and totalSize unchanged.
C21_NumericEvent ==
    \A e \in NumberEvents :
        \A i \in 1 .. Len(tasks) : NewestUploading(i) =>
            LET res == Listener(tasks, refs, e)
            IN  /\ res.tasks[i].progress = PercentOf(e.value)
                /\ res.tasks[i].status = tasks[i].status
                /\ res.tasks[i].uploadedSize = tasks[i].uploadedSize
                /\ res.tasks[i].totalSize = tasks[i].totalSize

\* two uploading tasks, the newer one with a known total and progress 0, about
\* to receive the bare number 0.5, which sets its progress to 50
C21_Witness ==
    /\ Len(tasks) = 2
    /\ tasks[1].status = "uploading"
    /\ tasks[2].status = "uploading"
    /\ tasks[2].totalSize > 0
    /\ tasks[2].progress = 0
    /\ ENABLED ProgressEvent(NumberPayload(50))
    /\ Listener(tasks, refs, NumberPayload(50)).tasks[2].progress = 5000
    /\ Listener(tasks, refs, NumberPayload(50)).tasks[1] = tasks[1]

\* C24: applying one progress event (also one carrying an error) changes at
\* most one task; every other task keeps all its fields, and the number and
\* the order of the tasks are unchanged.
C24_TaskIsolation ==
    \A e \in AllPayloads :
        LET res == Listener(tasks, refs, e)
        IN  /\ Len(res.tasks) = Len(tasks)
            /\ \A i \in 1 .. Len(tasks) : res.tasks[i].id = tasks[i].id
            /\ \A i, j \in 1 .. Len(tasks) :
                  (res.tasks[i] # tasks[i] /\ res.tasks[j] # tasks[j]) => i = j

\* two uploading tasks that both made progress; an error event for the older
\* one is about to put it in error and leave the newer one as it is
C24_Witness ==
    /\ Len(tasks) = 2
    /\ tasks[1].id # tasks[2].id
    /\ tasks[1].status = "uploading"
    /\ tasks[2].status = "uploading"
    /\ tasks[1].totalSize > 0
    /\ tasks[2].totalSize > 0
    /\ \E e \in ErrorEvents :
          /\ e.id = tasks[1].id
          /\ ENABLED ProgressEvent(e)
          /\ Listener(tasks, refs, e).tasks[1].status = "error"
          /\ Listener(tasks, refs, e).tasks[2] = tasks[2]

\* C25: an uploading task that stays in the registry leaves status uploading
\* only by a progress event attributed to it, by CancelUpload of its id or by
\* the failure of upload_file for its id; the successful return of upload_file
\* changes no task.
C25_NoWatchdog ==
    [][/\ \A i \in Kept :
            (tasks[i].status = "uploading" /\ tasks'[i].status # "uploading")
                => \/ CancelUpload(tasks[i].id)
                   \/ InvokeRejected(tasks[i].id)
                   \/ \E e \in AllPayloads :
                         ProgressEvent(e) /\ Listener(tasks, refs, e).pos = i
       /\ \A id \in Ids : InvokeResolved(id) => tasks' = tasks]_vars

\* upload_file has returned successfully for an uploading task, no event has
\* reached the task, and it is still uploading
C25_Witness ==
    \E i \in 1 .. Len(tasks) :
        /\ tasks[i] = NewTask(tasks[i].id)
        /\ tasks[i].id \in engine
        /\ pending[tasks[i].id] = 0
        /\ now = MaxClock

\* C26: when CancelUpload was applied to an uploading task while upload_file
\* was pending and upload_file fails later, the task stays cancelled with its
\* cancellation message.
C26_CancelThenLateFailure ==
    [][\A id \in Ids : InvokeRejected(id) =>
          \A i \in Kept :
              (/\ tasks[i].id = id
               /\ ghost[i].userCancelled
               /\ tasks[i].status = "cancelled")
              => /\ tasks'[i].status = "cancelled"
                 /\ tasks'[i].message = "Upload cancelled by user"]_vars

\* C27: a progress event emitted by a transfer whose task was evicted by
\* ResetTasks (every task now in the registry was created after that reset)
\* modifies no task, whether it carries the old id, no id, or is a bare number.
C27_IsolationAcrossReset ==
    [][\A src \in engine \ TaskIds :
          \A e \in AllPayloads :
              (EmitsFrom(src, e) /\ ProgressEvent(e)) => tasks' = tasks]_vars

\* C28: every task whose status is success has progress 100, also when the
\* completing event carried no byte counts or byte counts below the total.
C28_SuccessIsFull ==
    \A i \in 1 .. Len(tasks) :
        tasks[i].status = "success" => tasks[i].progress = 10000

\* C29: every uploading task with totalSize > 0 has uploadedSize < totalSize.
C29_UploadingIncomplete ==
    \A i \in 1 .. Len(tasks) :
        (tasks[i].status = "uploading" /\ tasks[i].totalSize > 0)
            => tasks[i].uploadedSize < tasks[i].totalSize

\* an uploading task one byte short of its total is about to receive the raw
\* count that covers the total, and leaves uploading in that step
C29_Witness ==
    \E i \in 1 .. Len(tasks) :
        /\ tasks[i].status = "uploading"
        /\ tasks[i].totalSize = 2
        /\ tasks[i].uploadedSize = 1
        /\ \E e \in ByteEvents :
              /\ e.uploaded = <<2>>
              /\ e.total = <<>>
              /\ ENABLED ProgressEvent(e)
              /\ Listener(tasks, refs, e).tasks[i].uploadedSize = 2
              /\ Listener(tasks, refs, e).tasks[i].status = "success"

\* C22: warm-up gating: while a task has had fewer than 3 samples or its
\* cumulative uploaded bytes are below 1 MiB, both its speed and its eta are
\* unset.
C22_WarmupGating ==
    \A i \in 1 .. Len(meter) :
        (meter[i].warmSamples < WARM_MIN_SAMPLES
            \/ tasks[i].uploadedSize < WARM_MIN_BYTES)
        => meter[i].speedBps = <<>> /\ meter[i].etaSec = <<>>

\* the step takes one sample for task i (the listener applied an object event)
Sampled(i) ==
    /\ i <= Len(meter) /\ i <= Len(meter')
    /\ meter'[i].warmSamples = meter[i].warmSamples + 1

\* C23: freeze rule: when an event is applied to a task that is warmed up (3
\* samples, 1 MiB) with totalBytes > 0 and a positive throughput estimate,
\* the eta is exactly 1 second if the remaining bytes are below 2 MiB or the
\* uploaded share is at least 0.995, and otherwise remaining / estimate with
\* the estimate clamped to [1 KiB/s, 10 GiB/s].
C23_FreezeRule ==
    [][\A i \in 1 .. Len(tasks) : Sampled(i) =>
        LET cum == tasks'[i].uploadedSize
            total == tasks'[i].totalSize
            est == Estimate(AvgBps(meter'[i].ring), meter'[i].emaBps)
            sp == ClampRate(est)
        IN  (/\ meter'[i].warmSamples >= 3
             /\ cum >= WARM_MIN_BYTES
             /\ total > 0
             /\ est # <<>>)
            => meter'[i].etaSec =
                    IF total - cum < FREEZE_REMAIN \/ 1000 * cum >= 995 * total
                    THEN <<1, 1>>
                    ELSE Rat((total - cum) * sp[2], sp[1])]_vars

\* a warmed-up task of 400 MiB with 398 MiB uploaded: exactly 2 MiB remain,
\* the share is 0.995, the eta is frozen at 1 second
C23_Witness ==
    /\ Len(tasks) = 1 /\ Len(meter) = 1
    /\ tasks[1].status = "uploading"
    /\ tasks[1].totalSize = 51200
    /\ tasks[1].uploadedSize = 50944
    /\ meter[1].warmSamples = WARM_MIN_SAMPLES
    /\ Estimate(AvgBps(meter[1].ring), meter[1].emaBps) # <<>>
    /\ meter[1].etaSec = <<1, 1>>

\* C30: single subscription: whenever the provider is mounted and no listen()
\* call is still awaited, a delivered progress event is applied to the registry
\* by exactly one listener: never by two, and never by none.
C30_SingleSubscription ==
    (IsMounted /\ \A k \in 1 .. Len(effects) : effects[k].reg # "pending")
        => Cardinality(Live) = 1

====
